---- MODULE Spec2Model ----
(***************************************************************************)
(* A model of mapvis.py: the two handlers behind the Gradio page,          *)
(* generate_filter_options (called by update_layout when a workbook is     *)
(* uploaded) and create_map (called by the Submit button).                 *)
(*                                                                         *)
(* A workbook is a sequence of sheets [name, df]; a DataFrame df is        *)
(* [columns, rows] with columns a sequence of column names and rows a      *)
(* sequence of functions from the column names to cells.  Cells of the     *)
(* filterable columns are strings; NaN is the reserved cell value NaN.     *)
(***************************************************************************)
EXTENDS Integers, Sequences, FiniteSets, TLC

VARIABLES
    in_file,          \* the uploaded workbook (gr.File), NoFile before an upload
    RUSSIAN_REGIONS,  \* the "features" list loaded at import
    filter_columns,   \* update_layout's filter_columns, bound into create_map
    filter_options,   \* what generate_filter_options returned
    submitted,        \* the arguments of the last create_map call
    out_plot,         \* what the last create_map call produced: a figure or an exception
    xls_options,      \* the ExcelFile opened by generate_filter_options
    xls_map           \* the ExcelFile opened by the last create_map call

vars == <<in_file, RUSSIAN_REGIONS, filter_columns, filter_options,
          submitted, out_plot, xls_options, xls_map>>

-----------------------------------------------------------------------------
(* Python strings.                                                         *)

\* str.startswith
StartsWith(s, prefix) ==
    /\ Len(s) >= Len(prefix)
    /\ SubSeq(s, 1, Len(prefix)) = prefix

\* str.removeprefix
RemovePrefix(s, prefix) ==
    IF StartsWith(s, prefix) THEN SubSeq(s, Len(prefix) + 1, Len(s)) ELSE s

Digit(c) ==
    CASE c = "0" -> 0 [] c = "1" -> 1 [] c = "2" -> 2 [] c = "3" -> 3
      [] c = "4" -> 4 [] c = "5" -> 5 [] c = "6" -> 6 [] c = "7" -> 7
      [] c = "8" -> 8 [] c = "9" -> 9

\* int() of a string of decimal digits
RECURSIVE ParseInt(_)
ParseInt(s) ==
    IF Len(s) = 0 THEN 0
    ELSE 10 * ParseInt(SubSeq(s, 1, Len(s) - 1)) + Digit(SubSeq(s, Len(s), Len(s)))

\* ord() of the characters the cell values are written with
Ord(c) ==
    CASE c = " " -> 32 [] c = "," -> 44 [] c = "A" -> 65 [] c = "B" -> 66
      [] c = "C" -> 67 [] c = "c" -> 99 [] c = "e" -> 101 [] c = "l" -> 108
      [] c = "p" -> 112 [] c = "t" -> 116 [] c = "x" -> 120

\* a < b on Python strings: lexicographic by code point
RECURSIVE StrLess(_, _)
StrLess(a, b) ==
    IF Len(b) = 0 THEN FALSE
    ELSE IF Len(a) = 0 THEN TRUE
    ELSE LET ca == Ord(SubSeq(a, 1, 1))
             cb == Ord(SubSeq(b, 1, 1))
         IN  IF ca # cb THEN ca < cb
             ELSE StrLess(SubSeq(a, 2, Len(a)), SubSeq(b, 2, Len(b)))

-----------------------------------------------------------------------------
(* Program constants.                                                      *)

ALL_EXCEPT == "All, except"

\* a missing cell (NaN / None), never a legal cell string
NaN == "<NaN>"

MAPBOX_TOKEN == "MAPBOX_TOKEN"
STADIA_MAPS_API_KEY == "STADIA_MAPS_API_KEY"

MAPBOX_STYLES ==
    [s \in {"navigation-day", "navigation-night", "light-rus", "dark-rus"} |->
        CASE s = "navigation-day"   -> "mapbox://styles/mapbox/navigation-day-v1"
          [] s = "navigation-night" -> "mapbox://styles/mapbox/navigation-night-v1"
          [] s = "light-rus" -> "mapbox://styles/shura1oplot/clztlhw0f00fl01qof3dbahjt"
          [] s = "dark-rus"  -> "mapbox://styles/shura1oplot/clztmf5yo003z01p90h07cthn"]

new_territories == {71971, 71973, 71980, 71022}

exclude_columns ==
    {"name", "lat", "lon", "lat1", "lon1", "lat2", "lon2",
     "marker_size", "marker_color", "marker_symbol",
     "marker_opacity", "line_width", "line_color"}

NoFile == <<>>
NoFigure == [kind |-> "None"]

-----------------------------------------------------------------------------
(* pandas                                                                  *)

Range(seq) == {seq[i] : i \in 1..Len(seq)}

\* column in df.columns
HasColumn(df, column) == column \in Range(df.columns)

\* df[column] as a sequence of cells
Column(df, column) == [i \in 1..Len(df.rows) |-> df.rows[i][column]]

\* df.get(column, default): the column when present, else the scalar default
DfGet(df, column, default) ==
    IF HasColumn(df, column) THEN Column(df, column) ELSE default

\* row.get(column, default)
RowGet(df, row, column, default) ==
    IF HasColumn(df, column) THEN row[column] ELSE default

\* Series.isin(values), one cell
IsIn(cell, values) == cell \in values

-----------------------------------------------------------------------------
(* create_map                                                              *)

\* one turn of the filter loop: the (column, values) pair applied to df
filter_step(df, column, values) ==
    IF ~HasColumn(df, column) THEN df
    ELSE IF values = {} THEN df
    ELSE IF ALL_EXCEPT \in values
    THEN [df EXCEPT !.rows = SelectSeq(@, LAMBDA row : ~IsIn(row[column], values))]
    ELSE [df EXCEPT !.rows = SelectSeq(@, LAMBDA row : IsIn(row[column], values))]

\* for column, values in zip(filter_columns, filter_values), from pair i on
RECURSIVE filter_loop(_, _, _, _)
filter_loop(df, columns, values, i) ==
    IF i > Len(columns) \/ i > Len(values) THEN df
    ELSE filter_loop(filter_step(df, columns[i], values[i]), columns, values, i + 1)

\* apply_filters with every pair filtering the sheet as read, not the frame
\* the earlier pairs left: the last pair alone decides
apply_filters_from_sheet(df, columns, values) ==
    LET n == IF Len(columns) < Len(values) THEN Len(columns) ELSE Len(values)
    IN  IF n = 0 THEN df ELSE filter_step(df, columns[n], values[n])

apply_filters(df, columns, values) == filter_loop(df, columns, values, 1)

has_line_columns(df) ==
    /\ HasColumn(df, "lat1") /\ HasColumn(df, "lon1")
    /\ HasColumn(df, "lat2") /\ HasColumn(df, "lon2")

has_point_columns(df) == HasColumn(df, "lat") /\ HasColumn(df, "lon")

\* the go.Scattermapbox(mode="lines") of one row
line_trace(sheet_name, df, row) ==
    [mode      |-> "lines",
     lon       |-> <<row["lon1"], row["lon2"]>>,
     lat       |-> <<row["lat1"], row["lat2"]>>,
     line      |-> [width |-> RowGet(df, row, "line_width", 2),
                    color |-> RowGet(df, row, "line_color", "blue")],
     text      |-> DfGet(df, "name", "Unnamed"),
     hoverinfo |-> "none",
     name      |-> sheet_name]

\* the go.Scattermapbox(mode="markers") of a sheet
marker_trace(sheet_name, df) ==
    [mode      |-> "markers",
     lon       |-> Column(df, "lon"),
     lat       |-> Column(df, "lat"),
     marker    |-> [size    |-> DfGet(df, "marker_size", 10),
                    color   |-> DfGet(df, "marker_color", "red"),
                    symbol  |-> DfGet(df, "marker_symbol", "circle"),
                    opacity |-> DfGet(df, "marker_opacity", 1)],
     text      |-> DfGet(df, "name", "Unnamed"),
     hoverinfo |-> "text",
     name      |-> sheet_name]

\* sheet_layers with the rows of a line sheet in one trace
sheet_layers_one_trace(sheet_name, df) ==
    IF has_line_columns(df)
    THEN <<[mode      |-> "lines",
            lon       |-> Column(df, "lon1") \o Column(df, "lon2"),
            lat       |-> Column(df, "lat1") \o Column(df, "lat2"),
            line      |-> [width |-> 2, color |-> "blue"],
            text      |-> DfGet(df, "name", "Unnamed"),
            hoverinfo |-> "none",
            name      |-> sheet_name]>>
    ELSE <<marker_trace(sheet_name, df)>>

\* what the filtered sheet appends to map_layers (the sheet is not a wrong-format one)
sheet_layers(sheet_name, df) ==
    IF has_line_columns(df)
    THEN [i \in 1..Len(df.rows) |-> line_trace(sheet_name, df, df.rows[i])]
    ELSE <<marker_trace(sheet_name, df)>>

\* sheet_loop with a sheet of the wrong format passed over
RECURSIVE sheet_loop_skipping(_, _, _, _, _)
sheet_loop_skipping(xls, columns, values, i, map_layers) ==
    IF i > Len(xls) THEN [raised |-> FALSE, map_layers |-> map_layers]
    ELSE IF StartsWith(xls[i].name, "_")
    THEN sheet_loop_skipping(xls, columns, values, i + 1, map_layers)
    ELSE LET df == apply_filters(xls[i].df, columns, values)
         IN  IF has_line_columns(df) \/ has_point_columns(df)
             THEN sheet_loop_skipping(xls, columns, values, i + 1,
                                      map_layers \o sheet_layers(xls[i].name, df))
             ELSE sheet_loop_skipping(xls, columns, values, i + 1, map_layers)

\* the loop over xls.sheet_names from sheet i on; map_layers is what earlier
\* sheets appended.  raised: the ValueError left the function.
RECURSIVE sheet_loop(_, _, _, _, _)
sheet_loop(xls, columns, values, i, map_layers) ==
    IF i > Len(xls) THEN [raised |-> FALSE, map_layers |-> map_layers]
    ELSE IF StartsWith(xls[i].name, "_")
    THEN sheet_loop(xls, columns, values, i + 1, map_layers)
    ELSE LET df == apply_filters(xls[i].df, columns, values)
         IN  IF has_line_columns(df) \/ has_point_columns(df)
             THEN sheet_loop(xls, columns, values, i + 1,
                             map_layers \o sheet_layers(xls[i].name, df))
             ELSE [raised  |-> TRUE,
                   message |-> "'" \o xls[i].name \o "': wrong format"]

\* feature_type without the allow-list
feature_type_by_level(feature) ==
    IF feature.properties.admin_level = "3" THEN "Federal districts" ELSE "Oblasts"

\* type_ of a feature that is not a node
feature_type(feature) ==
    LET admin_level == feature.properties.admin_level
        relation_id == ParseInt(RemovePrefix(feature.id, "relation/"))
        is_new_territories == relation_id \in new_territories
    IN  IF admin_level = "3" THEN "Federal districts"
        ELSE IF is_new_territories THEN "Oblasts (new territories)"
        ELSE "Oblasts"

\* select_features with the loop left at the first node (break for continue)
RECURSIVE select_features_until_node(_, _)
select_features_until_node(features, extra_layers) ==
    IF extra_layers = {} \/ Len(features) = 0 THEN <<>>
    ELSE IF StartsWith(Head(features).id, "node/") THEN <<>>
    ELSE (IF feature_type(Head(features)) \in extra_layers
          THEN <<Head(features)>> ELSE <<>>)
         \o select_features_until_node(Tail(features), extra_layers)

\* extra_layer_features; extra_layers None or [] is the empty set
select_features(features, extra_layers) ==
    IF extra_layers = {} THEN <<>>
    ELSE SelectSeq(features,
                   LAMBDA feature : /\ ~StartsWith(feature.id, "node/")
                                    /\ feature_type(feature) \in extra_layers)

\* resolve_style with 'custom' replaced before the alias table is looked up
resolve_style_custom_first(mapbox_style, mapbox_style_custom) ==
    LET chosen == IF mapbox_style = "" THEN "open-street-map" ELSE mapbox_style
        custom == IF chosen = "custom" THEN mapbox_style_custom ELSE chosen
    IN  IF custom \in DOMAIN MAPBOX_STYLES THEN MAPBOX_STYLES[custom] ELSE custom

\* mapbox_style once resolved; a missing style (None) is the empty string
resolve_style(mapbox_style, mapbox_style_custom) ==
    LET chosen  == IF mapbox_style = "" THEN "open-street-map" ELSE mapbox_style
        aliased == IF chosen \in DOMAIN MAPBOX_STYLES
                   THEN MAPBOX_STYLES[chosen] ELSE chosen
    IN  IF aliased = "custom" THEN mapbox_style_custom ELSE aliased

access_token(mapbox_style) ==
    IF StartsWith(mapbox_style, "stamen-")
    THEN STADIA_MAPS_API_KEY ELSE MAPBOX_TOKEN

\* the go.Figure returned
figure(map_layers, mapbox_style, extra_layer_features) ==
    [kind   |-> "Figure",
     data   |-> map_layers,
     mapbox |-> [style       |-> mapbox_style,
                 accesstoken |-> access_token(mapbox_style),
                 features    |-> extra_layer_features]]

\* The Submit click: create_map(excel_file, filter_columns, mapbox_style,
\* mapbox_style_custom, extra_layers, *filter_values).  The ValueError leaves
\* before xls.close(); the normal path closes the workbook.
create_map(mapbox_style, mapbox_style_custom, extra_layers, filter_values) ==
    /\ in_file # NoFile
    /\ LET read == sheet_loop(in_file, filter_columns, filter_values, 1, <<>>)
       IN  IF read.raised
           THEN /\ out_plot' = [kind |-> "ValueError", message |-> read.message]
                /\ xls_map' = "open"
           ELSE /\ out_plot' = figure(read.map_layers,
                                      resolve_style(mapbox_style, mapbox_style_custom),
                                      select_features(RUSSIAN_REGIONS, extra_layers))
                /\ xls_map' = "closed"
    /\ submitted' = [mapbox_style        |-> mapbox_style,
                     mapbox_style_custom |-> mapbox_style_custom,
                     extra_layers        |-> extra_layers,
                     filter_values       |-> filter_values]
    /\ UNCHANGED <<in_file, RUSSIAN_REGIONS, filter_columns, filter_options,
                   xls_options>>

-----------------------------------------------------------------------------
(* generate_filter_options                                                 *)

\* set.update(df[column].dropna().unique()): seen is the set so far, kept in
\* the order its members arrived
RECURSIVE update_seen(_, _, _)
update_seen(seen, cells, i) ==
    IF i > Len(cells) THEN seen
    ELSE IF cells[i] = NaN \/ cells[i] \in Range(seen)
    THEN update_seen(seen, cells, i + 1)
    ELSE update_seen(Append(seen, cells[i]), cells, i + 1)

\* insert x into the ascending sequence s
RECURSIVE insert_sorted(_, _)
insert_sorted(s, x) ==
    IF Len(s) = 0 THEN <<x>>
    ELSE IF StrLess(x, Head(s)) THEN <<x>> \o s
    ELSE <<Head(s)>> \o insert_sorted(Tail(s), x)

\* sorted()
RECURSIVE sorted(_)
sorted(s) ==
    IF Len(s) = 0 THEN <<>>
    ELSE insert_sorted(sorted(SubSeq(s, 1, Len(s) - 1)), s[Len(s)])

\* the loop over df.columns of one sheet, from column j on; options is
\* [keys: the dict's keys in insertion order, seen: key -> values]
RECURSIVE column_loop(_, _, _)
column_loop(df, j, options) ==
    IF j > Len(df.columns) THEN options
    ELSE LET column == df.columns[j]
         IN  IF column \in exclude_columns \/ StartsWith(column, "_")
             THEN column_loop(df, j + 1, options)
             ELSE LET known == column \in Range(options.keys)
                      before == IF known THEN options.seen[column] ELSE <<>>
                      after == update_seen(before, Column(df, column), 1)
                  IN  column_loop(df, j + 1,
                        [keys |-> IF known THEN options.keys
                                  ELSE Append(options.keys, column),
                         seen |-> [c \in Range(options.keys) \cup {column} |->
                                     IF c = column THEN after ELSE options.seen[c]]])

\* options_loop with the hidden sheets read too
RECURSIVE options_loop_all_sheets(_, _, _)
options_loop_all_sheets(xls, i, options) ==
    IF i > Len(xls) THEN options
    ELSE options_loop_all_sheets(xls, i + 1, column_loop(xls[i].df, 1, options))

\* the loop over xls.sheet_names, from sheet i on
RECURSIVE options_loop(_, _, _)
options_loop(xls, i, options) ==
    IF i > Len(xls) THEN options
    ELSE IF StartsWith(xls[i].name, "_") THEN options_loop(xls, i + 1, options)
    ELSE options_loop(xls, i + 1, column_loop(xls[i].df, 1, options))

\* option_list without sorted()
option_list_unsorted(seen) == <<ALL_EXCEPT>> \o seen

\* one entry of the returned dict
option_list(seen) == <<ALL_EXCEPT>> \o sorted(seen)

\* the dict returned: keys in insertion order, and the list of each key
filter_options_of(xls) ==
    LET options == options_loop(xls, 1, [keys |-> <<>>, seen |-> <<>>])
    IN  [keys   |-> options.keys,
         values |-> [c \in Range(options.keys) |-> option_list(options.seen[c])]]

\* update_layout on an upload: generate_filter_options(excel_file), whose
\* ExcelFile is never closed, and the filter columns bound into create_map
generate_filter_options(excel_file) ==
    /\ excel_file # NoFile
    /\ in_file' = excel_file
    /\ filter_options' = filter_options_of(excel_file)
    /\ filter_columns' = filter_options_of(excel_file).keys
    /\ xls_options' = "open"
    /\ UNCHANGED <<RUSSIAN_REGIONS, submitted, out_plot, xls_map>>

-----------------------------------------------------------------------------
(* The workbooks, reference sets and widget values the handlers are run on. *)

MaxRows == 2        \* rows of a sheet
MaxSheets == 2      \* sheets of a workbook
MaxTotalRows == 3   \* rows of a whole workbook, where the cells vary freely
MaxFeatures == 2    \* features of the reference set, where it varies

point_columns == <<"name", "lat", "lon", "kind", "_note">>
line_columns == <<"lat1", "lon1", "lat2", "lon2", "line_width", "kind">>
both_columns == <<"lat", "lon", "lat1", "lon1", "lat2", "lon2", "kind">>
plain_columns == <<"kind", "_note">>
filter_sheet_columns == <<"lat", "lon", "kind", "region">>

\* the i-th row of a sheet: its filterable cells given, its coordinates i
make_row(columns, i, kind, region) ==
    [c \in Range(columns) |->
        CASE c = "kind" -> kind
          [] c = "region" -> region
          [] c = "_note" -> "C"
          [] c = "name" -> "Moscow"
          [] c = "line_width" -> 3
          [] OTHER -> i]

make_sheet(name, columns, kinds) ==
    [name |-> name,
     df   |-> [columns |-> columns,
               rows    |-> [i \in 1..Len(kinds) |-> make_row(columns, i, kinds[i], "A")]]]

SeqsUpTo(S, n) == UNION {[1..k -> S] : k \in 0..n}

\* the k-th sheet's two possible names: shown, or hidden by the leading "_"
SheetNames(k) ==
    CASE k = 1 -> {"Cities", "_Cities"}
      [] k = 2 -> {"Routes", "_Routes"}
      [] k = 3 -> {"Depots", "_Depots"}
      [] OTHER -> {"Extra", "_Extra"}

\* the kind cells of a sheet of n rows: "A", "B", NaN, "A", ...
cycle_kinds(n) == [i \in 1..n |-> CASE i % 3 = 1 -> "A" [] i % 3 = 2 -> "B" [] OTHER -> NaN]

\* Workbooks that differ in shape: a shown sheet has any geometry columns
\* (points, lines, both, neither) and any number of rows, a hidden sheet has
\* one row and point columns or no geometry columns.
ShapeSheets(k) ==
    {make_sheet(name, columns, cycle_kinds(n)) :
        name \in {nm \in SheetNames(k) : ~StartsWith(nm, "_")},
        columns \in {point_columns, line_columns, both_columns, plain_columns},
        n \in 0..MaxRows}
    \cup {make_sheet(name, columns, cycle_kinds(1)) :
             name \in {nm \in SheetNames(k) : StartsWith(nm, "_")},
             columns \in {point_columns, plain_columns}}

\* the workbooks whose sheets k..n are drawn from ShapeSheets
RECURSIVE ShapeTails(_, _)
ShapeTails(k, n) ==
    IF k > n THEN {<<>>}
    ELSE {<<sheet>> \o tail : sheet \in ShapeSheets(k), tail \in ShapeTails(k + 1, n)}

ShapeWorkbooks == UNION {ShapeTails(1, n) : n \in 1..MaxSheets}

\* Workbooks that differ in content: the kind cells vary freely over the
\* whole workbook and are cut into sheets at the positions cuts.
CellValues == {"A", "B", ALL_EXCEPT, NaN}

\* the places where a run of total cells is cut into n sheets
Cuts(n, total) ==
    {c \in [0..n -> 0..total] :
        /\ c[0] = 0 /\ c[n] = total
        /\ \A k \in 1..n : c[k - 1] <= c[k]}

\* a name for each of n sheets
NameChoices(n) ==
    {nm \in [1..n -> UNION {SheetNames(k) : k \in 1..n}] :
        \A k \in 1..n : nm[k] \in SheetNames(k)}

\* the workbook of n sheets holding the cells between the cuts; sheets at odd
\* places have point columns, the others line columns
ContentWorkbook(n, names, cells, cuts) ==
    [k \in 1..n |->
        make_sheet(names[k],
                   IF k % 2 = 1 THEN point_columns ELSE line_columns,
                   SubSeq(cells, cuts[k - 1] + 1, cuts[k]))]

\* Workbooks for the filters: one sheet of points with two filterable columns
\* whose cells vary freely, alone or followed by a sheet of lines that has the
\* kind column and no region column.
FilterCells == {"A", ALL_EXCEPT, NaN}

FilterSheets ==
    {[name |-> "Cities",
      df   |-> [columns |-> filter_sheet_columns,
                rows    |-> [i \in 1..Len(cells) |->
                               make_row(filter_sheet_columns, i, cells[i][1], cells[i][2])]]] :
        cells \in SeqsUpTo(FilterCells \X FilterCells, MaxRows)}

FilterWorkbooks ==
    {<<sheet>> : sheet \in FilterSheets}
    \cup {<<sheet, make_sheet("Routes", line_columns, <<"A", ALL_EXCEPT>>)>> :
             sheet \in FilterSheets}

\* the workbook of the two-city example
CitiesWorkbook == <<make_sheet("Cities", <<"name", "lat", "lon">>, <<"A", "A">>)>>

\* Reference sets
Feature(id, admin_level) == [id |-> id, properties |-> [admin_level |-> admin_level]]

FeaturePool ==
    {Feature(id, admin_level) :
        id \in {"node/71971", "relation/71971", "relation/71022", "relation/60189"},
        admin_level \in {"3", "4"}}

ReferenceSets == SeqsUpTo(FeaturePool, MaxFeatures)

DefaultRegions ==
    <<Feature("node/27503892", "4"), Feature("relation/1029256", "3"),
      Feature("relation/71971", "4"), Feature("relation/51490", "4")>>

\* Widget values
ExtraLayerChoices == {"Federal districts", "Oblasts", "Oblasts (new territories)"}

\* the Dropdown's choices, a missing choice (""), and the three styles commented
\* out of the choices
StyleChoices ==
    {"", "open-street-map", "white-bg", "basic", "streets", "outdoors", "light",
     "light-rus", "dark", "dark-rus", "satellite", "satellite-streets",
     "navigation-day", "navigation-night", "stamen-terrain", "stamen-toner",
     "stamen-watercolor", "carto-darkmatter", "carto-positron", "custom"}

CustomStyles ==
    {"", "custom", "light-rus", "stamen-toner", "stamen",
     "mapbox://styles/mapbox/streets-v12"}

\* every value of the filter Dropdowns: per filter column a subset of its options
Selections ==
    {fv \in [1..Len(filter_columns) ->
                SUBSET (UNION {Range(filter_options.values[c]) : c \in Range(filter_columns)})] :
        \A i \in 1..Len(filter_columns) :
            fv[i] \subseteq Range(filter_options.values[filter_columns[i]])}

\* the filter Dropdowns after Clear
ClearedSelection == {[i \in 1..Len(filter_columns) |-> {}]}

-----------------------------------------------------------------------------
(* Specifications                                                          *)

InitWith(regions) ==
    /\ in_file = NoFile
    /\ RUSSIAN_REGIONS \in regions
    /\ filter_columns = <<>>
    /\ filter_options = [keys |-> <<>>, values |-> <<>>]
    /\ submitted = [mapbox_style |-> "", mapbox_style_custom |-> "",
                    extra_layers |-> {}, filter_values |-> <<>>]
    /\ out_plot = NoFigure
    /\ xls_options = "none"
    /\ xls_map = "none"

Init == InitWith({DefaultRegions})

\* one workbook is uploaded per session
FirstUpload == in_file = NoFile

Upload(workbooks) ==
    /\ FirstUpload
    /\ \E excel_file \in workbooks : generate_filter_options(excel_file)

\* create_map keeps nothing between two calls: one Submit per session shows
\* every result it has
FirstSubmit == out_plot = NoFigure

\* workbooks of every shape, every filter selection
Submit ==
    /\ FirstSubmit
    /\ \E extra_layers \in {{}, {"Oblasts"}}, filter_values \in Selections :
          create_map("", "", extra_layers, filter_values)

Next == Upload(ShapeWorkbooks) \/ Submit

Spec == Init /\ [][Next]_vars

\* workbooks of every content
SubmitCleared ==
    /\ FirstSubmit
    /\ \E filter_values \in ClearedSelection : create_map("", "", {}, filter_values)

UploadContent ==
    /\ FirstUpload
    /\ \E n \in 1..MaxSheets, cells \in SeqsUpTo(CellValues, MaxTotalRows) :
          \E names \in NameChoices(n), cuts \in Cuts(n, Len(cells)) :
              generate_filter_options(ContentWorkbook(n, names, cells, cuts))

NextCatalog == UploadContent \/ SubmitCleared

SpecCatalog == Init /\ [][NextCatalog]_vars

\* the filters
SubmitFilters ==
    /\ FirstSubmit
    /\ \E filter_values \in Selections : create_map("", "", {}, filter_values)

NextFilter == Upload(FilterWorkbooks) \/ SubmitFilters

SpecFilter == Init /\ [][NextFilter]_vars

\* the boundary overlay over every reference set
InitOverlay == InitWith(ReferenceSets)

SubmitOverlay ==
    /\ FirstSubmit
    /\ \E extra_layers \in SUBSET ExtraLayerChoices, filter_values \in ClearedSelection :
          create_map("", "", extra_layers, filter_values)

NextOverlay == Upload({CitiesWorkbook}) \/ SubmitOverlay

SpecOverlay == InitOverlay /\ [][NextOverlay]_vars

\* the style and the access token
SubmitStyle ==
    /\ FirstSubmit
    /\ \E mapbox_style \in StyleChoices, mapbox_style_custom \in CustomStyles,
          filter_values \in ClearedSelection :
          create_map(mapbox_style, mapbox_style_custom, {}, filter_values)

NextStyle == Upload({CitiesWorkbook}) \/ SubmitStyle

SpecStyle == Init /\ [][NextStyle]_vars

-----------------------------------------------------------------------------
(* What a state shows of the last create_map call.                         *)

Returned == out_plot.kind = "Figure"
Raised == out_plot.kind = "ValueError"

Visible(sheet) == ~StartsWith(sheet.name, "_")

VisibleSheets == {k \in 1..Len(in_file) : Visible(in_file[k])}

\* the traces of the figure that carry the sheet's name, in figure order
TracesOf(sheet) == SelectSeq(out_plot.data, LAMBDA trace : trace.name = sheet.name)

\* the rows of a sheet with line columns, else of one with point columns, are
\* told apart by their coordinates
RowId(df, row) == IF has_line_columns(df) THEN row["lat1"] ELSE row["lat"]

RowIds(df, rows) == [j \in 1..Len(rows) |-> RowId(df, rows[j])]

\* the rows of the sheet the figure shows, by coordinate
ShownRows(sheet) ==
    LET traces == TracesOf(sheet)
    IN  IF has_line_columns(sheet.df)
        THEN [j \in 1..Len(traces) |-> traces[j].lat[1]]
        ELSE IF Len(traces) = 0 THEN <<>> ELSE traces[1].lat

\* the rows of the sheet left by the submitted filters
FilteredRows(sheet) ==
    apply_filters(sheet.df, filter_columns, submitted.filter_values).rows

-----------------------------------------------------------------------------
(* C1: complement semantics of a selection with the sentinel               *)

\* column i is the only column with a selection, and that holds the sentinel
OnlySentinelFilter(i) ==
    /\ ALL_EXCEPT \in submitted.filter_values[i]
    /\ \A j \in 1..Len(filter_columns) : j # i => submitted.filter_values[j] = {}

\* the rows whose cell for column i is none of the selected values other
\* than the sentinel
ComplementRows(sheet, i) ==
    SelectSeq(sheet.df.rows,
              LAMBDA row : row[filter_columns[i]]
                             \notin (submitted.filter_values[i] \ {ALL_EXCEPT}))

\* C1: when a column of a visible sheet is filtered by a selection holding the
\* sentinel (and no other column is filtered), the figure shows exactly the
\* rows whose cell is not one of the other selected values, whatever the cell.
C1_SentinelKeepsComplement ==
    Returned =>
        \A k \in VisibleSheets : \A i \in 1..Len(filter_columns) :
            (HasColumn(in_file[k].df, filter_columns[i]) /\ OnlySentinelFilter(i))
                => ShownRows(in_file[k])
                     = RowIds(in_file[k].df, ComplementRows(in_file[k], i))

-----------------------------------------------------------------------------
(* C2: the relations of the new territories                                *)

NewTerritoryIds ==
    {"relation/71971", "relation/71973", "relation/71980", "relation/71022"}

InOverlay(feature) == feature \in Range(out_plot.mapbox.features)

NewTerritoryFeatures ==
    {RUSSIAN_REGIONS[i] : i \in {j \in 1..Len(RUSSIAN_REGIONS) :
                                    RUSSIAN_REGIONS[j].id \in NewTerritoryIds}}

\* C2 as claimed: a relation of the allow-list is in the overlay iff
\* 'Oblasts (new territories)' is requested, whatever its admin_level.
C2_NewTerritoryWhateverLevel ==
    Returned =>
        \A feature \in NewTerritoryFeatures :
            InOverlay(feature)
                <=> "Oblasts (new territories)" \in submitted.extra_layers

\* C2 as amended: a relation of the allow-list whose admin_level is not "3" is
\* in the overlay iff 'Oblasts (new territories)' is requested; one whose
\* admin_level is "3" is a federal district and is in the overlay iff
\* 'Federal districts' is requested.
C2_NewTerritoryBelowLevel3 ==
    Returned =>
        \A feature \in NewTerritoryFeatures :
            InOverlay(feature)
                <=> (IF feature.properties.admin_level = "3"
                     THEN "Federal districts"
                     ELSE "Oblasts (new territories)") \in submitted.extra_layers

\* an allow-listed relation of level 4 shown as new territory beside an
\* allow-listed relation of level 3 left out
C2_Witness ==
    /\ Returned
    /\ submitted.extra_layers = {"Oblasts (new territories)"}
    /\ \E f, g \in NewTerritoryFeatures :
          /\ f.properties.admin_level = "4" /\ InOverlay(f)
          /\ g.properties.admin_level = "3" /\ ~InOverlay(g)

-----------------------------------------------------------------------------
(* C3: the layers of a sheet                                               *)

IsPointSheet(sheet) == has_point_columns(sheet.df) /\ ~has_line_columns(sheet.df)
IsLineSheet(sheet) == has_line_columns(sheet.df)

\* the sheet's only trace is the marker trace of its filtered rows
OnePointLayer(sheet) ==
    /\ Len(TracesOf(sheet)) = 1
    /\ TracesOf(sheet)[1].mode = "markers"
    /\ Len(TracesOf(sheet)[1].lat) = Len(FilteredRows(sheet))
    /\ Len(TracesOf(sheet)[1].lon) = Len(FilteredRows(sheet))

\* C3 as claimed: every visible sheet puts at most one layer on the map, a
\* sheet with lat, lon one point layer of as many points as filtered rows, a
\* sheet with lat1, lon1, lat2, lon2 one line layer, for any number of rows.
C3_OneLayerPerSheet ==
    Returned =>
        \A k \in VisibleSheets :
            /\ Len(TracesOf(in_file[k])) <= 1
            /\ has_point_columns(in_file[k].df) => OnePointLayer(in_file[k])
            /\ IsLineSheet(in_file[k]) =>
                  /\ Len(TracesOf(in_file[k])) = 1
                  /\ TracesOf(in_file[k])[1].mode = "lines"

\* C3 as amended: a visible sheet with lat, lon and without the four line
\* columns puts exactly one point layer on the map, of as many points as the
\* sheet has filtered rows; a visible sheet with lat1, lon1, lat2, lon2 puts
\* one line layer per filtered row on the map, each of one segment (none for
\* 0 rows, n for n rows), also when it has lat, lon as well.
C3_OneLayerPerSheetOrRow ==
    Returned =>
        \A k \in VisibleSheets :
            /\ IsPointSheet(in_file[k]) => OnePointLayer(in_file[k])
            /\ IsLineSheet(in_file[k]) =>
                  /\ Len(TracesOf(in_file[k])) = Len(FilteredRows(in_file[k]))
                  /\ \A j \in 1..Len(TracesOf(in_file[k])) :
                        /\ TracesOf(in_file[k])[j].mode = "lines"
                        /\ Len(TracesOf(in_file[k])[j].lat) = 2
                        /\ Len(TracesOf(in_file[k])[j].lon) = 2
                        /\ TracesOf(in_file[k])[j].lat[1]
                             = RowId(in_file[k].df, FilteredRows(in_file[k])[j])

\* a line sheet of two rows beside a point sheet of two rows
C3_Witness ==
    /\ Returned
    /\ \E k, m \in VisibleSheets :
          /\ IsLineSheet(in_file[k])
          /\ Len(FilteredRows(in_file[k])) = 2
          /\ Len(TracesOf(in_file[k])) = 2
          /\ IsPointSheet(in_file[m])
          /\ Len(FilteredRows(in_file[m])) = 2
          /\ Len(TracesOf(in_file[m])) = 1

-----------------------------------------------------------------------------
(* C4: the workbook handle                                                 *)

\* C4: no handle a call of generate_filter_options or create_map opened is
\* open once the call is over, a failed create_map included.
C4_HandleReleased == xls_options # "open" /\ xls_map # "open"

-----------------------------------------------------------------------------
(* C5: a sheet of the wrong format                                         *)

WrongFormat(sheet) ==
    /\ ~(HasColumn(sheet.df, "lat") /\ HasColumn(sheet.df, "lon"))
    /\ ~(/\ HasColumn(sheet.df, "lat1") /\ HasColumn(sheet.df, "lon1")
         /\ HasColumn(sheet.df, "lat2") /\ HasColumn(sheet.df, "lon2"))

WrongSheets == {k \in VisibleSheets : WrongFormat(in_file[k])}

FirstWrongSheet == CHOOSE k \in WrongSheets : \A m \in WrongSheets : k <= m

\* C5: with a visible sheet of neither geometry anywhere in the workbook,
\* create_map raises an error naming the sheet (the first of them, when there
\* are several) and returns no figure; without one, hidden sheets of neither
\* geometry included, it returns the figure.
C5_WrongSheetAborts ==
    out_plot.kind # "None" =>
        IF WrongSheets # {}
        THEN /\ Raised
             /\ out_plot.message
                  = "'" \o in_file[FirstWrongSheet].name \o "': wrong format"
             /\ DOMAIN out_plot = {"kind", "message"}
        ELSE Returned

\* the wrong sheet is the last one, after a sheet that produced layers
C5_Witness ==
    /\ Raised
    /\ Len(in_file) = 2
    /\ WrongSheets = {2}
    /\ IsLineSheet(in_file[1]) /\ Visible(in_file[1])
    /\ Len(FilteredRows(in_file[1])) = 2

\* a hidden sheet of neither geometry does not fail the build
C5_HiddenWitness ==
    /\ Returned
    /\ \E k \in 1..Len(in_file) : ~Visible(in_file[k]) /\ WrongFormat(in_file[k])

-----------------------------------------------------------------------------
(* C6: the filters commute                                                 *)

Orders(n) == {p \in [1..n -> 1..n] : \A i, j \in 1..n : i # j => p[i] # p[j]}

Permuted(seq, p) == [i \in 1..Len(seq) |-> seq[p[i]]]

\* the row passes the filter of pair i applied alone to the whole sheet
PassesAlone(sheet, row, i) ==
    row \in Range(filter_step(sheet.df, filter_columns[i],
                              submitted.filter_values[i]).rows)

\* C6: for every visible sheet the rows the figure shows are the rows that pass
\* every (column, values) filter taken alone, and applying the pairs in any
\* other order leaves the same rows.
C6_FiltersCommute ==
    Returned =>
        \A k \in VisibleSheets :
            /\ ShownRows(in_file[k])
                 = RowIds(in_file[k].df,
                          SelectSeq(in_file[k].df.rows,
                                    LAMBDA row : \A i \in 1..Len(filter_columns) :
                                                    PassesAlone(in_file[k], row, i)))
            /\ \A p \in Orders(Len(filter_columns)) :
                  RowIds(in_file[k].df,
                         apply_filters(in_file[k].df, Permuted(filter_columns, p),
                                       Permuted(submitted.filter_values, p)).rows)
                    = ShownRows(in_file[k])

\* two columns filtered, one by membership and one by complement, each
\* dropping a row the other keeps
C6_Witness ==
    /\ Returned
    /\ Len(filter_columns) = 2
    /\ submitted.filter_values[1] # {} /\ submitted.filter_values[2] # {}
    /\ ALL_EXCEPT \in submitted.filter_values[1]
    /\ ALL_EXCEPT \notin submitted.filter_values[2]
    /\ Len(in_file[1].df.rows) = 2
    /\ \E row \in Range(in_file[1].df.rows) :
          PassesAlone(in_file[1], row, 1) /\ ~PassesAlone(in_file[1], row, 2)
    /\ \E row \in Range(in_file[1].df.rows) :
          ~PassesAlone(in_file[1], row, 1) /\ PassesAlone(in_file[1], row, 2)

-----------------------------------------------------------------------------
(* C7: hidden sheets and columns                                           *)

\* the non-null cells of the column over the visible sheets that have it
VisibleCells(column) ==
    UNION {{in_file[k].df.rows[j][column] : j \in 1..Len(in_file[k].df.rows)} \ {NaN} :
              k \in {m \in VisibleSheets : HasColumn(in_file[m].df, column)}}

\* C7: every key of the catalog is a column of a visible sheet that neither
\* starts with "_" nor is in the exclusion set, every value under a key, the
\* leading sentinel aside, is a cell of that column in a visible sheet, and every
\* layer of the figure carries the name of a visible sheet.
C7_HiddenNeverShown ==
    /\ \A column \in Range(filter_options.keys) :
          /\ ~StartsWith(column, "_")
          /\ column \notin {"name", "lat", "lon", "lat1", "lon1", "lat2", "lon2",
                            "marker_size", "marker_color", "marker_symbol",
                            "marker_opacity", "line_width", "line_color"}
          /\ \E k \in VisibleSheets : HasColumn(in_file[k].df, column)
          /\ Range(Tail(filter_options.values[column])) \subseteq VisibleCells(column)
    /\ Returned =>
          \A j \in 1..Len(out_plot.data) :
              \E k \in VisibleSheets : out_plot.data[j].name = in_file[k].name

\* a hidden sheet holds a cell no visible sheet holds, beside a visible sheet
\* with cells and a hidden column
C7_Witness ==
    /\ Returned
    /\ \E h \in 1..Len(in_file), k \in VisibleSheets :
          /\ ~Visible(in_file[h])
          /\ \E j \in 1..Len(in_file[h].df.rows) :
                /\ in_file[h].df.rows[j]["kind"] # NaN
                /\ in_file[h].df.rows[j]["kind"] \notin VisibleCells("kind")
          /\ HasColumn(in_file[k].df, "_note")
          /\ Len(in_file[k].df.rows) > 0
          /\ VisibleCells("kind") # {}

-----------------------------------------------------------------------------
(* C8: the value lists of the catalog                                      *)

\* the workbook with its sheets in the order p
Reordered(p) == [k \in 1..Len(in_file) |-> in_file[p[k]]]

\* C8: under every key the list is the sentinel, then the non-null cells of
\* that column over the visible sheets, each once and ascending; the list is
\* the same for the workbook with its sheets in any other order.
C8_SortedUnion ==
    \A column \in Range(filter_options.keys) :
        LET list == filter_options.values[column]
        IN  /\ list[1] = ALL_EXCEPT
            /\ Range(Tail(list)) = VisibleCells(column)
            /\ \A i \in 2..(Len(list) - 1) : StrLess(list[i], list[i + 1])
            /\ \A p \in Orders(Len(in_file)) :
                  /\ column \in Range(filter_options_of(Reordered(p)).keys)
                  /\ filter_options_of(Reordered(p)).values[column] = list

\* two visible sheets share a cell and hold their cells in descending order,
\* the sentinel string among them
C8_Witness ==
    /\ Len(in_file) = 2
    /\ VisibleSheets = {1, 2}
    /\ Column(in_file[1].df, "kind") = <<"B", ALL_EXCEPT>>
    /\ Column(in_file[2].df, "kind") = <<"A">>
    /\ filter_options.values["kind"] = <<ALL_EXCEPT, "A", ALL_EXCEPT, "B">>

-----------------------------------------------------------------------------
(* C9: the overlay                                                         *)

\* the category of a relation, from its id and its admin_level
Category(feature) ==
    IF feature.properties.admin_level = "3" THEN "Federal districts"
    ELSE IF feature.id \in NewTerritoryIds THEN "Oblasts (new territories)"
    ELSE "Oblasts"

IsNode(feature) == Len(feature.id) >= 5 /\ SubSeq(feature.id, 1, 5) = "node/"

\* the places in the reference set of the features the overlay is to hold
Requested ==
    {i \in 1..Len(RUSSIAN_REGIONS) :
        /\ ~IsNode(RUSSIAN_REGIONS[i])
        /\ Category(RUSSIAN_REGIONS[i]) \in submitted.extra_layers}

\* C9: the overlay holds the features of the reference set that are no nodes
\* and whose category is requested, each once, in the order of the reference
\* set; with nothing requested it is empty.
C9_OverlaySelection ==
    Returned =>
        /\ Len(out_plot.mapbox.features) = Cardinality(Requested)
        /\ \A i \in Requested :
              out_plot.mapbox.features[Cardinality({j \in Requested : j <= i})]
                = RUSSIAN_REGIONS[i]
        /\ submitted.extra_layers = {} => out_plot.mapbox.features = <<>>

\* a node and two relations of different categories, one of them requested
C9_Witness ==
    /\ Returned
    /\ Len(RUSSIAN_REGIONS) = 2
    /\ Cardinality(submitted.extra_layers) = 2
    /\ IsNode(RUSSIAN_REGIONS[1])
    /\ Len(out_plot.mapbox.features) = 1
    /\ out_plot.mapbox.features[1] = RUSSIAN_REGIONS[2]

-----------------------------------------------------------------------------
(* C10: the style and the access token                                     *)

AliasNames == {"navigation-day", "navigation-night", "light-rus", "dark-rus"}

\* C10: the style of the figure is the default for a missing style, the alias
\* table's entry for an alias, the custom string as it is for 'custom', and the
\* submitted style otherwise; the token is the Stadia one iff that style begins
\* with 'stamen-', else the Mapbox one; an alias never takes the Stadia token.
C10_StyleAndToken ==
    Returned =>
        LET chosen == submitted.mapbox_style
            style == out_plot.mapbox.style
            token == out_plot.mapbox.accesstoken
        IN  /\ chosen = "" => style = "open-street-map"
            /\ chosen \in AliasNames =>
                  /\ style = MAPBOX_STYLES[chosen]
                  /\ token = MAPBOX_TOKEN
            /\ chosen = "custom" => style = submitted.mapbox_style_custom
            /\ chosen \notin AliasNames \cup {"", "custom"} => style = chosen
            /\ token = (IF Len(style) >= 7 /\ SubSeq(style, 1, 7) = "stamen-"
                        THEN STADIA_MAPS_API_KEY ELSE MAPBOX_TOKEN)
            /\ token \in {STADIA_MAPS_API_KEY, MAPBOX_TOKEN}

\* the custom style is the name of an alias and stays as it is
C10_Witness ==
    /\ Returned
    /\ submitted.mapbox_style = "custom"
    /\ submitted.mapbox_style_custom \in AliasNames
    /\ out_plot.mapbox.style = submitted.mapbox_style_custom
    /\ out_plot.mapbox.accesstoken = MAPBOX_TOKEN

\* a custom style of the Stadia provider takes the Stadia token
C10_StadiaWitness ==
    /\ Returned
    /\ submitted.mapbox_style = "custom"
    /\ out_plot.mapbox.accesstoken = STADIA_MAPS_API_KEY

====
